---- MODULE Spec2Model ----
(***************************************************************************)
(* ClipAI browser extension: the Coordinator (background.js), the UI Panel *)
(* (sidebar.js) and the Summarizer Abstraction (summarizers.js).           *)
(*                                                                         *)
(* Spec     the clip store: the Coordinator's saveClip read-modify-write   *)
(*          over the two storage tiers, the UI Panel's loadClips, search,  *)
(*          sort and delete.                                               *)
(* SpecSave  the Coordinator's saveClip handlers alone, with storage        *)
(*          faults; the clipAdded broadcasts stay on the bus.              *)
(* SpecRace  the same handlers with no storage fault.                      *)
(* SpecSum  the summarization sessions of the UI Panel (handleSummarize):  *)
(*          createSummarizer, the per-item loop, the final reduction,      *)
(*          cancellation by the close button.                              *)
(* SpecBackend  one backend class of summarizers.js used directly: create  *)
(*          with a cancellation signal, summarize, destroy.                *)
(* SpecAgent  the Capture Agent (content.js) and the panel's clip toggle:   *)
(*          clipping mode, hover tracking, the clipModeExited notice.      *)
(* SpecMeta  the Coordinator's getMetadata relay to the active tab.         *)
(* SpecInject  the Coordinator's injectContentScript handler.               *)
(* SpecPage  the Capture Agent's page metadata: getMainContent and the     *)
(*          PageMetaData constructor, over pages of a few blocks.          *)
(* SpecAgain  summaries requested again after the close button, for a      *)
(*          panel of one clip.                                             *)
(* SpecCands  the panel's search and sort followed by a summary request.   *)
(* SpecDedup  the choice of a session's candidates from the panel's        *)
(*          collection: slice(0, 5) and the dedup by metadata.url.         *)
(***************************************************************************)
EXTENDS Integers, Sequences, FiniteSets, TLC

\* ------------------------------------------------------------------ bounds
MaxSaves == 3        \* saveClip requests per behaviour
MaxInFlight == 2     \* saveClip handlers running at the same time
MaxLoads == 1        \* loadClips calls awaiting storage at the same time
MaxSumClips == 3     \* clips in the panel when a summary is requested (SpecSum)
MaxSessions == 1     \* summarization sessions per behaviour (SpecSum)
MaxCands == 6        \* clips in the panel when the candidates are chosen (SpecDedup)
MaxCalls == 2        \* summarize calls on one backend instance (SpecBackend)
MaxDestroys == 2     \* destroy calls on one backend instance (SpecBackend)
MaxToggles == 3      \* clicks on the panel's clip toggle, Escape in the panel included (SpecAgent)
MaxClipClicks == 2   \* clicks that clip an element (SpecAgent)
MaxRelays == 3       \* getMetadata requests per behaviour (SpecMeta)
MaxInjects == 3      \* injectContentScript requests per behaviour (SpecInject)
MaxBlocks == 2       \* candidate blocks of a page (SpecPage)
MaxTextLen == 3      \* textContent.length of a block (SpecPage)
MaxLinks == 2        \* anchors inside a block (SpecPage)

\* --------------------------------------------------------- program constants
MAX_SYNC_BYTES == 102400

\* clips.slice(0, 5) in handleSummarize
MAX_CANDIDATES == 5

\* `undefined`, as read from a dataset attribute that is not there
UNDEFINED == 0

\* ------------------------------------------------------------------- state
VARIABLES
  syncStore,     \* chrome.storage.sync, key clipai_clips
  localStore,    \* chrome.storage.local, key clipai_clips
  reqs,          \* background.js: the saveClip handlers in progress
  clipAddedMsgs, \* clipAdded broadcasts on the bus, not yet delivered
  loads,         \* sidebar.js: loadClips calls whose storage read has been answered
  clips,         \* sidebar.js: let clips
  searchTerm,    \* sidebar.js: let searchTerm
  sortOrder,     \* sidebar.js: let sortOrder
  cards,         \* sidebar.js: the clip cards in #clips-container
  saved,         \* number of saveClip requests received so far
  seqBase,       \* history: what getClips returned before a run of sequential saves
  seqRun,        \* history: the clips saved by that run, newest first
  trail,         \* history: a save, its clipAdded and the reload, back to back
  summarizers,   \* summarizers.js: const summarizers, the preference list
  sessions,      \* sidebar.js: the handleSummarize calls, in the order they started
  summarizing,   \* sidebar.js: #app has the class 'summarizing'
  summaryContent,\* sidebar.js: what #summary-content shows
  backend,       \* summarizers.js: one backend class and the instance made of it
  agent,         \* content.js: the Capture Agent in the active tab
  isClippingMode,\* sidebar.js: let isClippingMode, the panel's toggle control
  clipBus,       \* the clip-mode messages between the panel and the agent
  relays,        \* background.js: the getMetadata handlers, in the order they started
  injections,    \* background.js: the injectContentScript handlers and the active tab
  page,          \* content.js: the document the content script runs in
  mainContent,   \* content.js: what a call of getMainContent() returned
  metadata       \* content.js: the PageMetaData instance made of the page

storeVars == <<syncStore, localStore, reqs, clipAddedMsgs, loads, clips,
               searchTerm, sortOrder, cards, saved, seqBase, seqRun, trail>>

sumVars == <<summarizers, sessions, summarizing, summaryContent>>

backVars == <<backend>>

agentVars == <<agent, isClippingMode, clipBus>>

metaVars == <<relays, injections>>

pageVars == <<page, mainContent, metadata>>

vars == <<storeVars, sumVars, backVars, metaVars, pageVars, agentVars>>

\* ------------------------------------------------------------------- clips
\* What a capture puts into a clip, as far as the store and the panel look
\* at it: metadata.url, metadata.title, metadata.content and the size of its
\* JSON text.
ClipInputs ==
  { [url |-> "a", title |-> "news", bytes |-> 2000, content |-> "text"],
    [url |-> "b", title |-> "blog", bytes |-> 60000, content |-> "text"] }

SearchTerms == {"", "news"}
SortOrders == {"new", "old"}

NoClip == [seq |-> 0, ts |-> 0, url |-> "", title |-> "", bytes |-> 0, content |-> ""]

\* the clip of the t-th capture; timestamp: new Date().toISOString(), captures
\* being user gestures at least a millisecond apart.  seq is history: the
\* rank of the clip's insertion (unshift) among all insertions, 0 before it.
MakeClip(in, t) ==
  [seq |-> 0, ts |-> t, url |-> in.url, title |-> in.title, bytes |-> in.bytes,
   content |-> in.content]

Inserted(clip, n) == [clip EXCEPT !.seq = n]

\* a storage area's entry for the key: absent, or a stored collection
Absent == [has |-> FALSE, val |-> <<>>]
Stored(c) == [has |-> TRUE, val |-> c]

RECURSIVE SumBytes(_)
SumBytes(s) == IF s = <<>> THEN 0 ELSE Head(s).bytes + SumBytes(Tail(s))

\* new TextEncoder().encode(JSON.stringify(clips)).length
SerializedBytes(c) ==
  2 + SumBytes(c) + (IF Len(c) > 0 THEN Len(c) - 1 ELSE 0)

\* saveToStorage: the tier of the first write
saveTier(c) == IF SerializedBytes(c) < MAX_SYNC_BYTES THEN "sync" ELSE "local"

\* getClips when both reads succeed and nothing runs in between
getClips(s, l) == IF s.has THEN s.val ELSE IF l.has THEN l.val ELSE <<>>

\* clips.unshift(message.data)
unshift(c, data) == <<data>> \o c

\* ------------------------------------------------------- sidebar.js helpers
\* the filter predicate of filterAndSortClips (titles and terms are atoms)
Matches(clip, term) == clip.title = term

\* the comparator of filterAndSortClips
Compare(a, b, order) == IF order = "new" THEN b.ts - a.ts ELSE a.ts - b.ts

\* Array.prototype.sort is stable: insert after every element not greater
RECURSIVE InsertSorted(_, _, _)
InsertSorted(s, c, order) ==
  IF s = <<>> THEN <<c>>
  ELSE IF Compare(Head(s), c, order) > 0 THEN <<c>> \o s
  ELSE <<Head(s)>> \o InsertSorted(Tail(s), c, order)

RECURSIVE SortClips(_, _)
SortClips(s, order) ==
  IF s = <<>> THEN <<>>
  ELSE InsertSorted(SortClips(SubSeq(s, 1, Len(s) - 1), order), s[Len(s)], order)

\* filterAndSortClips: the array it returns
filterAndSortClips(c, term, order) ==
  IF term # ""
    THEN SortClips(SelectSeq(c, LAMBDA x : Matches(x, term)), order)
    ELSE SortClips(c, order)

\* filterAndSortClips: `clips` afterwards (sort is in place, and with no
\* search term `filtered` is `clips` itself)
clipsAfterSort(c, term, order) ==
  IF term # "" THEN c ELSE SortClips(c, order)

\* clips.findIndex(clip => clip.timestamp === clipTimestamp), 0-based, -1 if none
findIndex(c, t) ==
  IF \E i \in 1..Len(c) : c[i].ts = t
    THEN (CHOOSE i \in 1..Len(c) : c[i].ts = t /\ \A j \in 1..(i-1) : c[j].ts # t) - 1
    ELSE -1

\* clips.splice(start, 1): a negative start counts from the end
splice1(c, start) ==
  LET n == Len(c)
      s == IF start < 0 THEN (IF n + start < 0 THEN 0 ELSE n + start)
           ELSE (IF start > n THEN n ELSE start)
  IN  IF s >= n THEN c
      ELSE SubSeq(c, 1, s) \o SubSeq(c, s + 2, n)

\* deleteClip: `clips` afterwards
deleteClip(c, t) == splice1(c, findIndex(c, t))

RemoveAt(s, i) == SubSeq(s, 1, i - 1) \o SubSeq(s, i + 1, Len(s))

\* ---------------------------------------------------------------- content.js
\* the elements of the page a mouse event can have as its target, and the
\* nodes the agent adds to the page
PageElements == {"h1", "p"}
OverlayNodes == {"overlay"}
NULL == "null"

\* a block of the page as getMainContent looks at it: text.length,
\* links.length, and whether it matches the selector of unwanted elements
Blocks ==
  [len : 0..MaxTextLen, links : 0..MaxLinks, unwanted : BOOLEAN]

\* a page: the blocks the selectors give, in document order, and whether it
\* has a meta[name="keywords"] tag
Pages ==
  [blocks : UNION { [1..n -> Blocks] : n \in 0..MaxBlocks },
   metaKeywords : BOOLEAN]

BlankPage == [blocks |-> <<>>, metaKeywords |-> FALSE]

\* no call yet
NotCalled == [called |-> FALSE]

\* a number, or NaN
Num(v) == [nan |-> FALSE, val |-> v]
NaN == [nan |-> TRUE, val |-> 0]

\* const score = text.length * (1 - linkDensity), with linkDensity 0 for a
\* block without links and links.length / text.length otherwise: n - k for
\* n > 0, and 0 * -Infinity, which is NaN, for an empty block with links
score(b) ==
  IF b.links = 0 THEN Num(b.len)
  ELSE IF b.len = 0 THEN NaN
  ELSE Num(b.len - b.links)

\* the loop over `blocks` from block i on, with bestBlock (0 for null) and
\* maxScore as they stand; `>=` in place of `>`
RECURSIVE forEach_LastWins(_, _, _, _)
forEach_LastWins(blocks, i, bestBlock, maxScore) ==
  IF i > Len(blocks) THEN bestBlock
  ELSE IF blocks[i].unwanted THEN forEach_LastWins(blocks, i + 1, bestBlock, maxScore)
  ELSE IF ~score(blocks[i]).nan /\ score(blocks[i]).val >= maxScore
    THEN forEach_LastWins(blocks, i + 1, i, score(blocks[i]).val)
  ELSE forEach_LastWins(blocks, i + 1, bestBlock, maxScore)

\* the loop over `blocks` from block i on, with bestBlock (0 for null) and
\* maxScore as they stand
RECURSIVE forEach(_, _, _, _)
forEach(blocks, i, bestBlock, maxScore) ==
  IF i > Len(blocks) THEN bestBlock
  ELSE IF blocks[i].unwanted THEN forEach(blocks, i + 1, bestBlock, maxScore)
  ELSE IF ~score(blocks[i]).nan /\ score(blocks[i]).val > maxScore
    THEN forEach(blocks, i + 1, i, score(blocks[i]).val)
  ELSE forEach(blocks, i + 1, bestBlock, maxScore)

\* getMainContent(): the text of bestBlock, or of document.body (0)
getMainContent(pg) ==
  [called |-> TRUE, textOf |-> forEach(pg.blocks, 1, 0, 0)]

\* new PageMetaData(): keywords from the meta tag, else from the words of
\* the page, and only then content = getMainContent(); content is '' before
PageMetaData(pg) ==
  [called |-> TRUE,
   keywords |-> IF pg.metaKeywords THEN "meta" ELSE "words",
   content |-> IF pg.metaKeywords THEN NotCalled ELSE getMainContent(pg)]

\* a call of getMainContent()
CallGetMainContent ==
  /\ ~mainContent.called
  /\ mainContent' = getMainContent(page)
  /\ UNCHANGED <<storeVars, sumVars, backVars, agentVars, metaVars, page, metadata>>

\* handleClipClick, or the answer to getMetadata: new PageMetaData()
NewPageMetaData ==
  /\ ~metadata.called
  /\ metadata' = PageMetaData(page)
  /\ UNCHANGED <<storeVars, sumVars, backVars, agentVars, metaVars, page, mainContent>>

\* the content script as loaded into the page
NewAgent ==
  [isClippingMode |-> FALSE,  \* let isClippingMode
   currentElement |-> NULL,   \* let currentElement
   overlay |-> "none",        \* let overlay: null ("none"), or its style.display
   highlighted |-> {},        \* the elements with the class clipai-highlight
   clickListener |-> FALSE,   \* handleClipClick is a click listener of document
   escListener |-> FALSE,     \* handleEscapeKey is a keydown listener of window
   timers |-> 0,              \* pending setTimeout(exitClippingMode, 1000)
   clipsSent |-> 0,           \* history: saveClip messages sent
   cause |-> "none",          \* history: the event handled last
   lastEnter |-> "none",      \* history: the event of the latest Idle -> Clipping
   lastExit |-> "none",       \* history: the event of the latest Clipping -> Idle
   sessionClips |-> 0,        \* history: saveClip messages sent since the latest Idle -> Clipping
   stale |-> 0,               \* history: pending timers set before the latest Idle -> Clipping
   reenabled |-> FALSE]       \* history: an enable message arrived in Clipping

\* the messages under way: toggleClipMode to the agent (in order),
\* clipModeExited to the panel, and the panel's pending chrome.tabs.query
NoClipMessages ==
  [toggle |-> <<>>, exited |-> 0, queries |-> 0,
   toggles |-> 0,   \* history: toggle clicks and Escape presses in the panel
   handled |-> 0]   \* history: clipModeExited messages the panel has handled

\* history: the event being handled and the mode changes it makes; timers
\* of one delay fire in the order they were set, the stale ones first
Caused(a, b, event) ==
  [b EXCEPT !.cause = event,
            !.lastEnter = IF ~a.isClippingMode /\ b.isClippingMode THEN event ELSE @,
            !.lastExit = IF a.isClippingMode /\ ~b.isClippingMode THEN event ELSE @,
            !.sessionClips = IF ~a.isClippingMode /\ b.isClippingMode THEN 0
                             ELSE @ + (b.clipsSent - a.clipsSent),
            !.stale = IF ~a.isClippingMode /\ b.isClippingMode THEN a.timers
                      ELSE IF event = "timer" /\ @ > 0 THEN @ - 1
                      ELSE @,
            !.reenabled = @ \/ (event = "toggleOn" /\ a.isClippingMode)]

\* enterClippingMode
enterClippingMode(a) ==
  [a EXCEPT !.isClippingMode = TRUE, !.overlay = "block",
            !.clickListener = TRUE, !.escListener = TRUE]

\* exitClippingMode with the two removeEventListener calls left out
exitClippingMode_KeepsListeners(a) ==
  [a EXCEPT !.isClippingMode = FALSE,
            !.overlay = IF @ = "none" THEN "none" ELSE "hidden",
            !.highlighted = @ \ {a.currentElement},
            !.currentElement = NULL]

\* exitClippingMode, the agent's state; it ends with sendMessage clipModeExited
exitClippingMode(a) ==
  [a EXCEPT !.isClippingMode = FALSE,
            !.overlay = IF @ = "none" THEN "none" ELSE "hidden",
            !.highlighted = @ \ {a.currentElement},
            !.currentElement = NULL,
            !.clickListener = FALSE, !.escListener = FALSE]

\* removeHighlight
removeHighlight(a) ==
  [a EXCEPT !.highlighted = @ \ {a.currentElement},
            !.currentElement = NULL,
            !.overlay = IF @ = "none" THEN "none" ELSE "hidden"]

\* chrome.runtime.sendMessage({action: 'clipModeExited'})
\* SendExited with the message left out
SendExited_Silent(bus) == bus

SendExited(bus) == [bus EXCEPT !.exited = @ + 1]

\* onMessage, action 'toggleClipMode': the oldest message is delivered
AgentOnToggle ==
  /\ clipBus.toggle # <<>>
  /\ LET enabled == Head(clipBus.toggle)
         bus == [clipBus EXCEPT !.toggle = Tail(@)]
     IN  IF enabled
           THEN /\ agent' = Caused(agent, enterClippingMode(agent), "toggleOn")
                /\ clipBus' = bus
           ELSE /\ agent' = Caused(agent, exitClippingMode(agent), "toggleOff")
                /\ clipBus' = SendExited(bus)
  /\ UNCHANGED <<storeVars, sumVars, backVars, metaVars, pageVars, isClippingMode>>

\* handleMouseOver
\* handleMouseOver with the test of isClippingMode left out
handleMouseOver_NoGuard(a, target) ==
  IF target \in OverlayNodes THEN a
  ELSE [a EXCEPT !.highlighted = (@ \ {a.currentElement}) \cup {target},
                 !.currentElement = target]

handleMouseOver(a, target) ==
  IF ~a.isClippingMode THEN a
  ELSE IF target \in OverlayNodes THEN a
  ELSE [a EXCEPT !.highlighted = (@ \ {a.currentElement}) \cup {target},
                 !.currentElement = target]

\* the mouseover listener of document
AgentMouseOver(target) ==
  /\ agent' = Caused(agent, handleMouseOver(agent, target), "mouseover")
  /\ UNCHANGED <<storeVars, sumVars, backVars, metaVars, pageVars, isClippingMode, clipBus>>

\* handleMouseOut: `stays` when relatedTarget is the current element, inside
\* it or inside the button container
AgentMouseOut(stays) ==
  /\ agent' = Caused(agent,
       IF ~agent.isClippingMode \/ stays \/ agent.currentElement = NULL THEN agent
       ELSE [agent EXCEPT !.highlighted = @ \ {agent.currentElement},
                          !.currentElement = NULL],
       "mouseout")
  /\ UNCHANGED <<storeVars, sumVars, backVars, metaVars, pageVars, isClippingMode, clipBus>>

\* handleClipClick, while it is registered: the clip is sent and the exit is
\* scheduled
\* AgentClick with exitClippingMode run by any click, at once
AgentClick_ExitsAtOnce ==
  /\ agent.clickListener
  /\ agent' = Caused(agent, exitClippingMode(agent), "click")
  /\ clipBus' = SendExited(clipBus)
  /\ UNCHANGED <<storeVars, sumVars, backVars, metaVars, pageVars, isClippingMode>>

AgentClick ==
  /\ agent.clickListener
  /\ IF agent.currentElement = NULL
       THEN agent' = Caused(agent, agent, "click")
       ELSE /\ agent.clipsSent < MaxClipClicks
            /\ agent' = Caused(agent, [agent EXCEPT !.clipsSent = @ + 1,
                                                    !.timers = @ + 1], "click")
  /\ UNCHANGED <<storeVars, sumVars, backVars, metaVars, pageVars, isClippingMode, clipBus>>

\* the timer of handleClipClick fires: exitClippingMode()
AgentTimer ==
  /\ agent.timers > 0
  /\ agent' = Caused(agent, [exitClippingMode(agent) EXCEPT !.timers = @ - 1], "timer")
  /\ clipBus' = SendExited(clipBus)
  /\ UNCHANGED <<storeVars, sumVars, backVars, metaVars, pageVars, isClippingMode>>

\* Escape is pressed in the page: handleEscapeKey on window (capture) stops
\* the event; without it the keydown listener of document runs
AgentEscape ==
  /\ IF agent.escListener
       THEN /\ agent' = Caused(agent, exitClippingMode(agent), "escape")
            /\ clipBus' = SendExited(clipBus)
       ELSE IF agent.isClippingMode
         THEN /\ agent' = Caused(agent,
                     removeHighlight([agent EXCEPT !.isClippingMode = FALSE]), "escape")
              /\ clipBus' = SendExited(clipBus)
         ELSE /\ agent' = Caused(agent, agent, "escape")
              /\ UNCHANGED clipBus
  /\ UNCHANGED <<storeVars, sumVars, backVars, metaVars, pageVars, isClippingMode>>

\* ------------------------------------------------ sidebar.js: the clip toggle
\* toggleClipMode: the click listener of #clip-content, up to the await in
\* sendClipModeChangeMessage
PanelToggle ==
  /\ clipBus.toggles < MaxToggles
  /\ isClippingMode' = ~isClippingMode
  /\ clipBus' = [clipBus EXCEPT !.queries = @ + 1, !.toggles = @ + 1]
  /\ UNCHANGED <<storeVars, sumVars, backVars, metaVars, pageVars, agent>>

\* handleEscapeKey of the panel document
PanelEscape ==
  /\ clipBus.toggles < MaxToggles
  /\ isClippingMode
  /\ isClippingMode' = FALSE
  /\ clipBus' = [clipBus EXCEPT !.queries = @ + 1, !.toggles = @ + 1]
  /\ UNCHANGED <<storeVars, sumVars, backVars, metaVars, pageVars, agent>>

\* sendClipModeChangeMessage after chrome.tabs.query: the message carries
\* isClippingMode as it is now; no message without an active tab
PanelQuerySettles(tab) ==
  /\ clipBus.queries > 0
  /\ clipBus' = [clipBus EXCEPT !.queries = @ - 1,
                   !.toggle = IF tab THEN Append(@, isClippingMode) ELSE @]
  /\ UNCHANGED <<storeVars, sumVars, backVars, metaVars, pageVars, agent, isClippingMode>>

\* onMessage, action 'clipModeExited': exitClipMode()
PanelOnExited ==
  /\ clipBus.exited > 0
  /\ isClippingMode' = FALSE
  /\ clipBus' = [clipBus EXCEPT !.exited = @ - 1, !.handled = @ + 1]
  /\ UNCHANGED <<storeVars, sumVars, backVars, metaVars, pageVars, agent>>

\* ------------------------------------------------- background.js: saveClip
\* a handler in progress: where it is, message.data, and its `clips` array
Req(pc, data, c, clean) == [pc |-> pc, data |-> data, clips |-> c, clean |-> clean]

\* message.data of handler r as it is inserted: the insertions so far are the
\* requests received less the handlers still reading
Stamp(r) ==
  Inserted(r.data,
           saved - Cardinality({q \in reqs : q.pc \in {"getSync", "getLocal"}}) + 1)

\* no save has just finished
NoTrail == [phase |-> "none", clip |-> NoClip]

\* the handlers in progress are no longer alone with the store
Disturb(rs) == { [q EXCEPT !.clean = FALSE] : q \in rs }

\* onMessage, action 'saveClip': the handler starts and calls getClips()
OnSaveClip(in) ==
  /\ saved < MaxSaves
  /\ Cardinality(reqs) < MaxInFlight
  /\ LET alone == reqs = {}
     IN  /\ reqs' = Disturb(reqs) \cup
                      {Req("getSync", MakeClip(in, saved + 1), <<>>, alone)}
         /\ seqBase' = IF alone /\ seqRun = <<>>
                         THEN getClips(syncStore, localStore)
                         ELSE IF alone THEN seqBase ELSE <<>>
         /\ seqRun' = IF alone THEN seqRun ELSE <<>>
  /\ saved' = saved + 1
  /\ UNCHANGED <<syncStore, localStore, clipAddedMsgs, loads, clips,
                 searchTerm, sortOrder, cards>>
  /\ UNCHANGED <<sumVars, backVars, metaVars, pageVars, agentVars>>
  /\ trail' = NoTrail

\* getClips: await chrome.storage.sync.get; a rejection is caught and yields []
CoordGetSync(r, ok) ==
  /\ r \in reqs
  /\ r.pc = "getSync"
  /\ reqs' = (reqs \ {r}) \cup
       { IF ~ok THEN Req("set", Stamp(r), unshift(<<>>, Stamp(r)), FALSE)
         ELSE IF syncStore.has
           THEN Req("set", Stamp(r), unshift(syncStore.val, Stamp(r)), r.clean)
         ELSE Req("getLocal", r.data, <<>>, r.clean) }
  /\ UNCHANGED <<syncStore, localStore, clipAddedMsgs, loads, clips, searchTerm,
                 sortOrder, cards, saved, seqBase, seqRun>>
  /\ UNCHANGED <<sumVars, backVars, metaVars, pageVars, agentVars>>
  /\ trail' = NoTrail

\* getClips: await chrome.storage.local.get; localData[STORAGE_KEY] || []
CoordGetLocal(r, ok) ==
  /\ r \in reqs
  /\ r.pc = "getLocal"
  /\ reqs' = (reqs \ {r}) \cup
       { IF ~ok THEN Req("set", Stamp(r), unshift(<<>>, Stamp(r)), FALSE)
         ELSE Req("set", Stamp(r),
                  unshift(IF localStore.has THEN localStore.val ELSE <<>>, Stamp(r)),
                  r.clean) }
  /\ UNCHANGED <<syncStore, localStore, clipAddedMsgs, loads, clips, searchTerm,
                 sortOrder, cards, saved, seqBase, seqRun>>
  /\ UNCHANGED <<sumVars, backVars, metaVars, pageVars, agentVars>>
  /\ trail' = NoTrail

\* the handler's last .then: chrome.runtime.sendMessage({action: 'clipAdded'})
Finish(r) ==
  /\ reqs' = reqs \ {r}
  /\ clipAddedMsgs' = clipAddedMsgs + 1
  /\ seqRun' = IF r.clean THEN <<r.data>> \o seqRun ELSE <<>>
  /\ trail' = [phase |-> "saved", clip |-> r.data]

\* CoordSet writing the stored collection with message.data put in front of
\* it, as if the read and the write were one step
CoordSet_Merging(r, ok) ==
  /\ r \in reqs
  /\ r.pc = "set"
  /\ LET merged == unshift(getClips(syncStore, localStore), r.data)
     IN  IF ok
           THEN /\ IF saveTier(merged) = "sync"
                     THEN /\ syncStore' = Stored(merged)
                          /\ UNCHANGED localStore
                     ELSE /\ localStore' = Stored(merged)
                          /\ UNCHANGED syncStore
                /\ Finish(r)
           ELSE /\ reqs' = (reqs \ {r}) \cup {Req("fallback", r.data, merged, FALSE)}
                /\ trail' = NoTrail
                /\ UNCHANGED <<syncStore, localStore, clipAddedMsgs, seqRun>>
  /\ UNCHANGED <<loads, clips, searchTerm, sortOrder, cards, saved, seqBase>>
  /\ UNCHANGED <<sumVars, backVars, metaVars, pageVars, agentVars>>

\* CoordSet with no catch block: a failed write ends the handler
CoordSet_NoFallback(r, ok) ==
  /\ r \in reqs
  /\ r.pc = "set"
  /\ IF ok
       THEN /\ IF saveTier(r.clips) = "sync"
                 THEN /\ syncStore' = Stored(r.clips)
                      /\ UNCHANGED localStore
                 ELSE /\ localStore' = Stored(r.clips)
                      /\ UNCHANGED syncStore
            /\ Finish(r)
       ELSE /\ reqs' = reqs \ {r}
            /\ trail' = NoTrail
            /\ UNCHANGED <<syncStore, localStore, clipAddedMsgs, seqRun>>
  /\ UNCHANGED <<loads, clips, searchTerm, sortOrder, cards, saved, seqBase>>
  /\ UNCHANGED <<sumVars, backVars, metaVars, pageVars, agentVars>>

\* saveToStorage: the write in the try block, to the tier the size selects
CoordSet(r, ok) ==
  /\ r \in reqs
  /\ r.pc = "set"
  /\ IF ok
       THEN /\ IF saveTier(r.clips) = "sync"
                 THEN /\ syncStore' = Stored(r.clips)
                      /\ UNCHANGED localStore
                 ELSE /\ localStore' = Stored(r.clips)
                      /\ UNCHANGED syncStore
            /\ Finish(r)
       ELSE /\ reqs' = (reqs \ {r}) \cup {Req("fallback", r.data, r.clips, FALSE)}
            /\ trail' = NoTrail
            /\ UNCHANGED <<syncStore, localStore, clipAddedMsgs, seqRun>>
  /\ UNCHANGED <<loads, clips, searchTerm, sortOrder, cards, saved, seqBase>>
  /\ UNCHANGED <<sumVars, backVars, metaVars, pageVars, agentVars>>

\* saveToStorage: the write in the catch block; its rejection ends the handler
\* CoordFallback with clipAdded broadcast after a failed write as well
CoordFallback_AlwaysNotifies(r, ok) ==
  /\ r \in reqs
  /\ r.pc = "fallback"
  /\ localStore' = IF ok THEN Stored(r.clips) ELSE localStore
  /\ Finish(r)
  /\ UNCHANGED <<syncStore, loads, clips, searchTerm, sortOrder, cards, saved,
                 seqBase>>
  /\ UNCHANGED <<sumVars, backVars, metaVars, pageVars, agentVars>>

CoordFallback(r, ok) ==
  /\ r \in reqs
  /\ r.pc = "fallback"
  /\ IF ok
       THEN /\ localStore' = Stored(r.clips)
            /\ Finish(r)
       ELSE /\ reqs' = reqs \ {r}
            /\ seqRun' = <<>>
            /\ trail' = NoTrail
            /\ UNCHANGED <<localStore, clipAddedMsgs>>
  /\ UNCHANGED <<syncStore, loads, clips, searchTerm, sortOrder, cards, saved,
                 seqBase>>
  /\ UNCHANGED <<sumVars, backVars, metaVars, pageVars, agentVars>>

\* ---------------------------------------------- background.js: getMetadata
\* the responses a requester can get: the agent's {metadata}, the handler's
\* {success: false, error}, and undefined
AgentResponse == "metadata"
StructuredFailure == "failure"
NoResponse == "undefined"

\* a handler in progress: where it is, what tabs.query gave, whether the
\* agent got the message, and every sendResponse call so far
NewRelay ==
  [pc |-> "query", tab |-> "none", delivered |-> FALSE, responses |-> <<>>]

\* sendResponse(value) ends the handler's promise chain
Respond(i, rl, value) ==
  relays' = [relays EXCEPT ![i] =
               [rl EXCEPT !.pc = "done", !.responses = Append(@, value)]]

\* onMessage, action 'getMetadata': the handler calls chrome.tabs.query and
\* returns true
OnGetMetadata ==
  /\ Len(relays) < MaxRelays
  /\ relays' = Append(relays, NewRelay)
  /\ UNCHANGED <<storeVars, sumVars, backVars, agentVars, injections, pageVars>>

\* chrome.tabs.query has settled: with the active tab, with no tab, or with
\* a rejection
RelayQuerySettles(i, result) ==
  /\ i \in 1..Len(relays)
  /\ relays[i].pc = "query"
  /\ LET rl == [relays[i] EXCEPT !.tab = result]
     IN  IF result = "tab"
           THEN relays' = [relays EXCEPT ![i] = [rl EXCEPT !.pc = "forward"]]
         ELSE IF result = "noTab"
           THEN Respond(i, rl, NoResponse)
           ELSE Respond(i, rl, StructuredFailure)
  /\ UNCHANGED <<storeVars, sumVars, backVars, agentVars, injections, pageVars>>

\* chrome.tabs.sendMessage(tab.id, message) has settled: with the agent's
\* response, or with a rejection (no content script in the tab)
RelayDeliverySettles(i, ok) ==
  /\ i \in 1..Len(relays)
  /\ relays[i].pc = "forward"
  /\ IF ok
       THEN Respond(i, [relays[i] EXCEPT !.delivered = TRUE], AgentResponse)
       ELSE Respond(i, relays[i], StructuredFailure)
  /\ UNCHANGED <<storeVars, sumVars, backVars, agentVars, injections, pageVars>>

\* --------------------------------------- background.js: injectContentScript
\* the files injectContentScript injects
ContentFiles == {"content.js", "content.css"}

\* the active tab (does it hold the '.clipai-script-injected' marker) and the
\* handlers so far
NoInjections(marker) == [marker |-> marker, handlers |-> <<>>]

\* a handler in progress: where it is, what tabs.query gave, the call of
\* scriptAlreadyInjected it left behind, the files it injected and every
\* sendResponse call so far
NewInjection ==
  [pc |-> "query", tab |-> "none", probe |-> "none", files |-> {},
   responses |-> <<>>]

\* what `if (x)` makes of x: every object, a Promise included, is truthy
IsTruthy(x) == x \notin {"false", "undefined"}

\* scriptAlreadyInjected(tabId), an async function: what the call returns
scriptAlreadyInjected == "Promise"

\* injectContentScript(tabId): the test of the value scriptAlreadyInjected
\* returned, then the two injections
injectContentScript(h) ==
  IF IsTruthy(scriptAlreadyInjected)
    THEN [h EXCEPT !.probe = "pending"]
    ELSE [h EXCEPT !.probe = "pending", !.files = ContentFiles]

\* onMessage, action 'injectContentScript': the handler calls
\* chrome.tabs.query and returns true
OnInjectContentScript ==
  /\ Len(injections.handlers) < MaxInjects
  /\ injections' = [injections EXCEPT !.handlers = Append(@, NewInjection)]
  /\ UNCHANGED <<storeVars, sumVars, backVars, agentVars, relays, pageVars>>

\* chrome.tabs.query has settled; with a tab injectContentScript runs and
\* resolves, then sendResponse({success: true}); a rejection goes to the catch
InjectQuerySettles(i, result) ==
  /\ i \in 1..Len(injections.handlers)
  /\ injections.handlers[i].pc = "query"
  /\ LET h == [injections.handlers[i] EXCEPT !.tab = result, !.pc = "done"]
         g == IF result = "tab" THEN injectContentScript(h) ELSE h
     IN  injections' = [injections EXCEPT
           !.handlers[i] = [g EXCEPT !.responses =
              Append(@, IF result = "rejected" THEN StructuredFailure
                        ELSE "success")]]
  /\ UNCHANGED <<storeVars, sumVars, backVars, agentVars, relays, pageVars>>

\* the executeScript call of scriptAlreadyInjected has settled: nothing
\* awaits its promise
InjectProbeSettles(i, ok) ==
  /\ i \in 1..Len(injections.handlers)
  /\ injections.handlers[i].probe = "pending"
  /\ injections' = [injections EXCEPT !.handlers[i].probe =
                       IF ~ok THEN "rejected"
                       ELSE IF injections.marker THEN "true" ELSE "false"]
  /\ UNCHANGED <<storeVars, sumVars, backVars, agentVars, relays, pageVars>>

\* --------------------------------------------------------------- sidebar.js
\* renderClips after `c` has become the panel's collection
Render(c, term, order) ==
  /\ cards' = filterAndSortClips(c, term, order)
  /\ clips' = clipsAfterSort(c, term, order)

\* onMessage, action 'clipAdded': loadClips() asks chrome.storage.local
OnClipAdded(ok) ==
  /\ clipAddedMsgs > 0
  /\ Len(loads) < MaxLoads
  /\ clipAddedMsgs' = clipAddedMsgs - 1
  /\ loads' = IF ok THEN Append(loads, localStore) ELSE loads
  /\ UNCHANGED <<syncStore, localStore, reqs, clips, searchTerm, sortOrder, cards,
                 saved, seqBase, seqRun>>
  /\ UNCHANGED <<sumVars, backVars, metaVars, pageVars, agentVars>>
  /\ trail' = IF ok /\ trail.phase = "saved" THEN [trail EXCEPT !.phase = "delivered"] ELSE NoTrail

\* loadClips after its await: clips = data.clipai_clips || []; renderClips()
LoadClipsResume ==
  /\ loads # <<>>
  /\ Render(IF Head(loads).has THEN Head(loads).val ELSE <<>>, searchTerm, sortOrder)
  /\ loads' = Tail(loads)
  /\ UNCHANGED <<syncStore, localStore, reqs, clipAddedMsgs, searchTerm, sortOrder,
                 saved, seqBase, seqRun>>
  /\ UNCHANGED <<sumVars, backVars, metaVars, pageVars, agentVars>>
  /\ trail' = IF trail.phase = "delivered" THEN [trail EXCEPT !.phase = "loaded"] ELSE NoTrail

\* the panel document is loaded again: module state is reset, loadClips() runs
OpenPanel ==
  /\ clips' = <<>>
  /\ cards' = <<>>
  /\ searchTerm' = ""
  /\ sortOrder' = "new"
  /\ loads' = <<localStore>>
  /\ UNCHANGED <<syncStore, localStore, reqs, clipAddedMsgs, saved, seqBase,
                 seqRun>>
  /\ UNCHANGED <<sumVars, backVars, metaVars, pageVars, agentVars>>
  /\ trail' = NoTrail

\* the 'input' listener of #search
SetSearch(term) ==
  /\ term # searchTerm
  /\ searchTerm' = term
  /\ Render(clips, term, sortOrder)
  /\ UNCHANGED <<syncStore, localStore, reqs, clipAddedMsgs, loads, sortOrder,                  saved, seqBase, seqRun>>
  /\ UNCHANGED <<sumVars, backVars, metaVars, pageVars, agentVars>>
  /\ trail' = NoTrail

\* the 'change' listener of #sort
SetSort(order) ==
  /\ order # sortOrder
  /\ sortOrder' = order
  /\ Render(clips, searchTerm, order)
  /\ UNCHANGED <<syncStore, localStore, reqs, clipAddedMsgs, loads, searchTerm,                  saved, seqBase, seqRun>>
  /\ UNCHANGED <<sumVars, backVars, metaVars, pageVars, agentVars>>
  /\ trail' = NoTrail

\* the card's click listener, for a click on the delete icon of card i: the
\* target matches '.delete-clip *', so it is the svg or a path inside the
\* button, and its dataset has no clipTimestamp
ClickDelete(i, ok) ==
  /\ i \in 1..Len(cards)
  /\ clips' = deleteClip(clips, UNDEFINED)
  /\ localStore' = IF ok THEN Stored(clips') ELSE localStore
  /\ cards' = RemoveAt(cards, i)
  /\ reqs' = Disturb(reqs)
  /\ seqRun' = <<>>
  /\ UNCHANGED <<syncStore, clipAddedMsgs, loads, searchTerm, sortOrder, saved,
                 seqBase>>
  /\ UNCHANGED <<sumVars, backVars, metaVars, pageVars, agentVars>>
  /\ trail' = NoTrail

\* ------------------------------------------------------------ summarizers.js
Classes == {"T5Summarizer", "PromptApiSummarizer", "NativeSummarizer"}

\* the list as shipped, and the lists the commented-out entries give
ShippedList == <<"T5Summarizer">>
BackendLists ==
  { ShippedList,
    <<"T5Summarizer", "PromptApiSummarizer", "NativeSummarizer">>,
    <<"PromptApiSummarizer", "NativeSummarizer">>,
    <<"PromptApiSummarizer", "NativeSummarizer", "T5Summarizer">> }

\* `static get isAvailable()`: the class property is a boolean, not a function
ProbeIsGetter(c) == c = "T5Summarizer"

\* create() hands options.signal to the platform's create()
CreateTakesSignal(c) == c # "T5Summarizer"

\* summarize() hands options.signal to the call it awaits
SummarizeTakesSignal(c) == c = "PromptApiSummarizer"

\* the class defines destroy()
HasDestroy(c) == c # "T5Summarizer"

\* assertValidInput does not throw
ValidInput(input) == input # "undefined" /\ input # ""

\* the values summarize() is called with: a text, the empty string, and a
\* value that is not a string
SummarizeInputs == {"text", "", "undefined"}

\* what assertValidInput throws
InputError(input) == IF input = "undefined" THEN "TypeError" ELSE "Error"

\* a backend class before its create() is called
NewBackend(c) ==
  [class |-> c,
   pc |-> "idle",          \* create(): not called, at an await, or settled
   aborted |-> FALSE,      \* options.signal.aborted
   abortedAt |-> "none",   \* history: pc when the signal fired
   error |-> "none",       \* what create() rejected with
   init |-> "none",        \* history: t5:init, or the platform's create():
                           \* not sent, "sent", answered "ok" or "error"
   live |-> FALSE,         \* the platform session exists and is not destroyed
   inflight |-> FALSE,     \* a summarize() call is awaiting the platform
   calls |-> 0,            \* summarize() calls so far
   sent |-> {},            \* history: the inputs handed to the platform
   lastInput |-> "none",   \* history: the input of the latest summarize()
   lastResult |-> "none",  \* how the latest summarize() settled
   destroys |-> 0,         \* destroy() calls so far
   platformDestroys |-> 0, \* calls of the platform object's destroy()
   destroyError |-> "none"]

NoBackend == NewBackend("none")

\* Class.create({onProgress, signal}) up to its first await
BackendCreate ==
  /\ backend.pc = "idle"
  /\ backend' = IF backend.class = "T5Summarizer"
                  THEN [backend EXCEPT !.pc = "init", !.init = "sent"]
                  ELSE [backend EXCEPT !.pc = "avail"]
  /\ UNCHANGED <<storeVars, sumVars, agentVars, metaVars, pageVars>>

\* create(): `await Class.isAvailable()` has settled
BackendAvailable(avail) ==
  /\ backend.pc = "avail"
  /\ backend' = IF avail THEN [backend EXCEPT !.pc = "init", !.init = "sent"]
                ELSE [backend EXCEPT !.pc = "failed", !.error = "Error"]
  /\ UNCHANGED <<storeVars, sumVars, agentVars, metaVars, pageVars>>

\* the caller aborts the controller whose signal it passed
BackendAbort ==
  /\ backend.pc # "failed"
  /\ ~backend.aborted
  /\ backend' = [backend EXCEPT !.aborted = TRUE, !.abortedAt = backend.pc]
  /\ UNCHANGED <<storeVars, sumVars, agentVars, metaVars, pageVars>>

\* BackendInitSettles with no look at response.error: the instance is
\* constructed whatever the answer
BackendInitSettles_IgnoresError(ok) ==
  /\ backend.pc = "init"
  /\ ok => ~(backend.aborted /\ CreateTakesSignal(backend.class))
  /\ backend' = [backend EXCEPT !.pc = "ready", !.live = TRUE,
                                !.init = IF ok THEN "ok" ELSE "error"]
  /\ UNCHANGED <<storeVars, sumVars, agentVars, metaVars, pageVars>>

\* create(): the platform's create(), or the t5:init message, has settled
BackendInitSettles(ok) ==
  /\ backend.pc = "init"
  /\ ok => ~(backend.aborted /\ CreateTakesSignal(backend.class))
  /\ backend' =
       IF ok THEN [backend EXCEPT !.pc = "ready", !.live = TRUE, !.init = "ok"]
       ELSE [backend EXCEPT !.pc = "failed", !.init = "error",
               !.error = IF backend.aborted /\ CreateTakesSignal(backend.class)
                           THEN "AbortError" ELSE "Error"]
  /\ UNCHANGED <<storeVars, sumVars, agentVars, metaVars, pageVars>>

\* instance.summarize(input, {signal}) up to its await
\* BackendSummarize with the input handed to the platform before it is validated
BackendSummarize_ValidatesLate(input) ==
  /\ backend.pc = "ready"
  /\ ~backend.inflight
  /\ backend.calls < MaxCalls
  /\ LET b == [backend EXCEPT !.calls = @ + 1, !.lastInput = input]
     IN  backend' =
           IF backend.aborted /\ ~SummarizeTakesSignal(backend.class)
             THEN [b EXCEPT !.lastResult = "AbortError"]
           ELSE [b EXCEPT !.inflight = TRUE, !.lastResult = "pending",
                          !.sent = @ \cup {input}]
  /\ UNCHANGED <<storeVars, sumVars, agentVars, metaVars, pageVars>>

BackendSummarize(input) ==
  /\ backend.pc = "ready"
  /\ ~backend.inflight
  /\ backend.calls < MaxCalls
  /\ LET b == [backend EXCEPT !.calls = @ + 1, !.lastInput = input]
     IN  backend' =
           IF ~ValidInput(input)
             THEN [b EXCEPT !.lastResult = InputError(input)]
           ELSE IF backend.aborted /\ ~SummarizeTakesSignal(backend.class)
             THEN [b EXCEPT !.lastResult = "AbortError"]
           ELSE [b EXCEPT !.inflight = TRUE, !.lastResult = "pending",
                          !.sent = @ \cup {input}]
  /\ UNCHANGED <<storeVars, sumVars, agentVars, metaVars, pageVars>>

\* summarize(): the platform call, or the t5:summarize message, has settled
BackendSummarizeSettles(ok) ==
  /\ backend.inflight
  /\ ok => /\ backend.live
           /\ ~(backend.aborted /\ SummarizeTakesSignal(backend.class))
  /\ backend' = [backend EXCEPT !.inflight = FALSE,
       !.lastResult = IF ok THEN "summary"
                      ELSE IF backend.aborted /\ SummarizeTakesSignal(backend.class)
                        THEN "AbortError" ELSE "Error"]
  /\ UNCHANGED <<storeVars, sumVars, agentVars, metaVars, pageVars>>

\* instance.destroy(): a class without the method gives a TypeError
BackendDestroy ==
  /\ backend.pc = "ready"
  /\ backend.destroys < MaxDestroys
  /\ backend' =
       IF HasDestroy(backend.class)
         THEN [backend EXCEPT !.destroys = @ + 1, !.platformDestroys = @ + 1,
                              !.live = FALSE]
         ELSE [backend EXCEPT !.destroys = @ + 1, !.destroyError = "TypeError"]
  /\ UNCHANGED <<storeVars, sumVars, agentVars, metaVars, pageVars>>

\* ------------------------------------------------- sidebar.js: handleSummarize
\* clips.slice(0, 5)
slice(c, n) == SubSeq(c, 1, IF Len(c) < n THEN Len(c) ELSE n)

\* .filter(clip => { if (!webpages.has(url)) { webpages.add(url); return true; } return false; })
\* dedupeFrom with the `webpages.add(url)` left out
RECURSIVE dedupeFrom_NoAdd(_, _)
dedupeFrom_NoAdd(c, webpages) ==
  IF c = <<>> THEN <<>>
  ELSE IF Head(c).url \notin webpages
    THEN <<Head(c)>> \o dedupeFrom_NoAdd(Tail(c), webpages)
    ELSE dedupeFrom_NoAdd(Tail(c), webpages)

RECURSIVE dedupeFrom(_, _)
dedupeFrom(c, webpages) ==
  IF c = <<>> THEN <<>>
  ELSE IF Head(c).url \notin webpages
    THEN <<Head(c)>> \o dedupeFrom(Tail(c), webpages \cup {Head(c).url})
    ELSE dedupeFrom(Tail(c), webpages)

dedupe(c) == dedupeFrom(c, {})

clipsToSummarize(c) == dedupe(slice(c, MAX_CANDIDATES))

NoSummary == [kind |-> "empty", by |-> 0, text |-> <<>>]
Shows(kind, id, text) == [kind |-> kind, by |-> id, text |-> text]

\* a handleSummarize call that got past its two early returns
NewSession(cands) ==
  [pc |-> "start",        \* the await it is suspended at, or "done"
   outcome |-> "running", \* how the call ended
   aborted |-> FALSE,     \* signal.aborted
   early |-> FALSE,       \* history: aborted before the first summarize call settled
   listening |-> TRUE,    \* its once-listener on #close-summary is still installed
   cands |-> cands,       \* clipsToSummarize
   k |-> 0,               \* createSummarizer: index into summarizers
   probes |-> <<>>,       \* history: what isAvailable() returned, per backend tried
   creates |-> <<>>,      \* history: "ok", "fail", or "none" (create() not called)
   inst |-> "none",       \* the class of `summarizer`
   error |-> "none",      \* the error createSummarizer or destroy() threw
   length |-> "none",     \* summaryLength
   i |-> 0,               \* the loop index, 1-based
   summaries |-> <<>>,    \* the array `summaries`; "" stands for undefined
   content |-> <<>>,      \* the input of the final call: the joined summaries
   summary |-> <<>>,      \* const summary: what the final call returned
   destroyed |-> FALSE,   \* summarizer.destroy() has returned
   abortedAt |-> "none",  \* history: the await it was suspended at when the signal fired
   calls |-> <<>>]        \* history: the summarizer.summarize calls made, in order

\* the catch around createSummarizer: 'Summarizer not available', return
CreateFailed(s, k, err) ==
  [s EXCEPT !.pc = "done", !.k = k, !.error = err, !.outcome = "notAvailable"]

\* createSummarizer, iteration k of the loop up to its first await: calling
\* the boolean of a getter throws a TypeError outside the try block
TryBackend(s, k) ==
  IF k > Len(summarizers) THEN CreateFailed(s, k, "NoSummarizer")
  ELSE IF ProbeIsGetter(summarizers[k]) THEN CreateFailed(s, k, "TypeError")
  ELSE [s EXCEPT !.pc = "probe", !.k = k]

\* a summarize call that rejects without a backend result: assertValidInput
\* throws, or the signal is already aborted
RejectsAtOnce(s, input) == ~ValidInput(input) \/ s.aborted

\* Boolean(x) for the elements of `summaries`
Truthy(x) == x # ""

\* Array.prototype.join('\n\n') on an array of strings: the elements with
\* the separator between neighbours, as a sequence of pieces
RECURSIVE join(_)
join(a) ==
  IF Len(a) <= 1 THEN a
  ELSE <<Head(a), "\n\n">> \o join(Tail(a))

\* the string the backend returns for the joined text
Reduction(content) == <<"summary of">> \o content

\* summarizer.summarize(input, {signal, length}) is called for item `item`
\* (0: the final call); `length` is "none" when the option is left out
Invoke(s, item, input, length) ==
  [s EXCEPT !.calls = Append(@,
     [item |-> item, input |-> input, length |-> length,
      afterAbort |-> s.aborted,
      result |-> IF RejectsAtOnce(s, input) THEN "fail" ELSE "pending"])]

\* the call in flight has settled
Settle(s, ok) ==
  [s EXCEPT !.calls[Len(s.calls)].result = IF ok THEN "ok" ELSE "fail"]

\* lines 407-419: the abort check, then the final call up to its await
\* AfterLoop with summaries.filter(Boolean) left out
AfterLoop_NoFilter(s) ==
  LET content == join(s.summaries)
      t == Invoke(s, 0, content, "none")
  IN  IF s.aborted THEN [s EXCEPT !.pc = "done", !.outcome = "aborted"]
      ELSE IF content = <<>>
        THEN [t EXCEPT !.pc = "done", !.outcome = "threw", !.content = content]
        ELSE [t EXCEPT !.pc = "final", !.content = content]

AfterLoop(s) ==
  LET content == join(SelectSeq(s.summaries, Truthy))
      t == Invoke(s, 0, content, "none")
  IN  IF s.aborted THEN [s EXCEPT !.pc = "done", !.outcome = "aborted"]
      ELSE IF content = <<>>
        THEN [t EXCEPT !.pc = "done", !.outcome = "threw", !.content = content]
        ELSE [t EXCEPT !.pc = "final", !.content = content]

\* the for loop from item s.i on, up to the next call that has to be awaited
\* RunLoop with the `await` of the loop body left out
RECURSIVE RunLoop_NoAwait(_)
RunLoop_NoAwait(s) ==
  IF s.i > Len(s.cands) THEN AfterLoop(s)
  ELSE LET t == Invoke(s, s.i, s.cands[s.i].content, s.length)
       IN  RunLoop_NoAwait([t EXCEPT !.summaries = Append(@, ""), !.i = @ + 1])

RECURSIVE RunLoop(_)
RunLoop(s) ==
  IF s.i > Len(s.cands) THEN AfterLoop(s)
  ELSE LET t == Invoke(s, s.i, s.cands[s.i].content, s.length)
       IN  IF RejectsAtOnce(s, s.cands[s.i].content)
             THEN RunLoop([t EXCEPT !.summaries = Append(@, ""), !.i = @ + 1])
             ELSE [t EXCEPT !.pc = "item"]

\* lines 383-393, after createSummarizer has returned an instance of class c
\* StartLoop with summaryLength always 'medium'
StartLoop_AlwaysMedium(s, c) ==
  RunLoop([s EXCEPT !.inst = c, !.i = 1, !.length = "medium"])

StartLoop(s, c) ==
  RunLoop([s EXCEPT !.inst = c, !.i = 1,
                    !.length = IF Len(s.cands) > 2 THEN "short" ELSE "medium"])

\* what the panel shows once session id has moved to s
ShowsAfter(id, s) ==
  IF s.outcome = "notAvailable" THEN Shows("notAvailable", id, <<>>)
  ELSE IF s.outcome = "summary" THEN Shows("summary", id, s.summary)
  ELSE summaryContent

Step(id, s) ==
  /\ sessions' = [sessions EXCEPT ![id] = s]
  /\ summaryContent' = ShowsAfter(id, s)
  /\ UNCHANGED <<summarizers, summarizing>>
  /\ UNCHANGED <<storeVars, backVars, metaVars, pageVars, agentVars>>

\* the click listener of #summarize: handleSummarize up to its first await
StartSession(limit) ==
  /\ ~summarizing
  /\ LET cands == clipsToSummarize(clips)
     IN  IF cands = <<>>
           THEN /\ summaryContent' = Shows("noClips", 0, <<>>)
                /\ UNCHANGED <<sessions, summarizing>>
           ELSE /\ Len(sessions) < limit
                /\ LET id == Len(sessions) + 1
                       s == TryBackend(NewSession(cands), 1)
                   IN  /\ sessions' = Append(sessions, s)
                       /\ summaryContent' =
                            IF s.pc = "done" THEN ShowsAfter(id, s)
                            ELSE Shows("loading", id, <<>>)
                /\ summarizing' = TRUE
  /\ UNCHANGED summarizers
  /\ UNCHANGED <<storeVars, backVars, metaVars, pageVars, agentVars>>

\* a click on #summarize
ClickSummarize == StartSession(MaxSessions)

\* a click on #summarize, one more session being followed
ClickSummarizeAgain == StartSession(MaxSessions + 1)

\* createSummarizer: `await summarizerClass.isAvailable()` has settled
ProbeSettles(id, avail) ==
  /\ id \in 1..Len(sessions)
  /\ sessions[id].pc = "probe"
  /\ LET s == [sessions[id] EXCEPT !.probes = Append(@, avail)]
     IN  Step(id, IF avail THEN [s EXCEPT !.pc = "create"]
                  ELSE TryBackend([s EXCEPT !.creates = Append(@, "none")], s.k + 1))

\* createSummarizer: `await summarizerClass.create(...)` has settled; a create
\* that was given the signal rejects once the signal is aborted
CreateSettles(id, ok) ==
  /\ id \in 1..Len(sessions)
  /\ sessions[id].pc = "create"
  /\ LET s == sessions[id]
         c == summarizers[s.k]
     IN  /\ ok => ~(s.aborted /\ CreateTakesSignal(c))
         /\ Step(id, IF ok THEN StartLoop([s EXCEPT !.creates = Append(@, "ok")], c)
                     ELSE TryBackend([s EXCEPT !.creates = Append(@, "fail")], s.k + 1))

\* the loop: `await summarizer.summarize(...).catch(...)` has settled
ItemSettles(id, ok) ==
  /\ id \in 1..Len(sessions)
  /\ sessions[id].pc = "item"
  /\ LET s == sessions[id]
     IN  /\ ok => ~(s.aborted /\ SummarizeTakesSignal(s.inst))
         /\ Step(id, RunLoop([Settle(s, ok) EXCEPT
              !.summaries = Append(@, IF ok THEN s.cands[s.i].url ELSE ""),
              !.i = @ + 1]))

\* lines 417-427: the final `await summarizer.summarize(content, {signal})`
\* has settled
\* FinalSettles with the test `if (!signal.aborted)` left out
FinalSettles_NoAbortCheck(id, ok) ==
  /\ id \in 1..Len(sessions)
  /\ sessions[id].pc = "final"
  /\ LET s == Settle(sessions[id], ok)
         t == [s EXCEPT !.summary = Reduction(s.content)]
     IN  /\ ok => ~(s.aborted /\ SummarizeTakesSignal(s.inst))
         /\ Step(id,
              IF ~ok THEN [s EXCEPT !.pc = "done", !.outcome = "threw"]
              ELSE IF HasDestroy(s.inst)
                THEN [t EXCEPT !.pc = "done", !.outcome = "summary", !.destroyed = TRUE]
                ELSE [t EXCEPT !.pc = "done", !.outcome = "summary",
                               !.error = "TypeError"])

FinalSettles(id, ok) ==
  /\ id \in 1..Len(sessions)
  /\ sessions[id].pc = "final"
  /\ LET s == Settle(sessions[id], ok)
         t == [s EXCEPT !.summary = Reduction(s.content)]
     IN  /\ ok => ~(s.aborted /\ SummarizeTakesSignal(s.inst))
         /\ Step(id,
              IF ~ok THEN [s EXCEPT !.pc = "done", !.outcome = "threw"]
              ELSE IF s.aborted
                THEN [t EXCEPT !.pc = "done", !.outcome = "aborted"]
              ELSE IF HasDestroy(s.inst)
                THEN [t EXCEPT !.pc = "done", !.outcome = "summary", !.destroyed = TRUE]
                ELSE [t EXCEPT !.pc = "done", !.outcome = "summary",
                               !.error = "TypeError"])

\* a click on #close-summary: every once-listener still installed runs
ClickClose ==
  /\ \E id \in 1..Len(sessions) : sessions[id].listening
  /\ summarizing' = FALSE
  /\ sessions' = [id \in 1..Len(sessions) |->
       LET s == sessions[id]
       IN  IF ~s.listening THEN s
           ELSE IF s.pc = "done" THEN [s EXCEPT !.listening = FALSE]
           ELSE [s EXCEPT !.listening = FALSE, !.aborted = TRUE,
                          !.abortedAt = s.pc,
                          !.early = @ \/ s.pc \in {"probe", "create"}
                                      \/ (s.pc = "item" /\ s.i = 1)]]
  /\ UNCHANGED <<summarizers, summaryContent>>
  /\ UNCHANGED <<storeVars, backVars, metaVars, pageVars, agentVars>>

\* ------------------------------------------------------------ specification
Init ==
  /\ syncStore = Absent
  /\ localStore = Absent
  /\ reqs = {}
  /\ clipAddedMsgs = 0
  /\ loads = <<>>
  /\ clips = <<>>
  /\ searchTerm = ""
  /\ sortOrder = "new"
  /\ cards = <<>>
  /\ saved = 0
  /\ seqBase = <<>>
  /\ seqRun = <<>>
  /\ trail = NoTrail
  /\ summarizers = <<"T5Summarizer">>
  /\ sessions = <<>>
  /\ summarizing = FALSE
  /\ summaryContent = NoSummary
  /\ backend = NoBackend
  /\ agent = NewAgent
  /\ isClippingMode = FALSE
  /\ clipBus = NoClipMessages
  /\ relays = <<>>
  /\ injections = NoInjections(FALSE)
  /\ page = BlankPage
  /\ mainContent = NotCalled
  /\ metadata = NotCalled

Next ==
  \/ \E in \in ClipInputs : OnSaveClip(in)
  \/ \E r \in reqs, ok \in BOOLEAN : CoordGetSync(r, ok)
  \/ \E r \in reqs, ok \in BOOLEAN : CoordGetLocal(r, ok)
  \/ \E r \in reqs, ok \in BOOLEAN : CoordSet(r, ok)
  \/ \E r \in reqs, ok \in BOOLEAN : CoordFallback(r, ok)
  \/ \E ok \in BOOLEAN : OnClipAdded(ok)
  \/ LoadClipsResume
  \/ OpenPanel
  \/ \E term \in SearchTerms : SetSearch(term)
  \/ \E order \in SortOrders : SetSort(order)
  \/ \E i \in 1..MaxSaves, ok \in BOOLEAN : ClickDelete(i, ok)

Spec == Init /\ [][Next]_vars

\* what a capture puts into a clip, as far as a summarization session looks
\* at it; the page at "d" has no extracted content
SumInputs ==
  { [url |-> "a", title |-> "news", bytes |-> 2000, content |-> "text"],
    [url |-> "b", title |-> "blog", bytes |-> 2000, content |-> "text"],
    [url |-> "c", title |-> "docs", bytes |-> 2000, content |-> "text"],
    [url |-> "d", title |-> "home", bytes |-> 2000, content |-> ""] }

\* the collections of n clips, most recent first
RECURSIVE Collections(_, _)
Collections(inputs, n) ==
  IF n = 0 THEN {<<>>}
  ELSE { <<Inserted(MakeClip(in, n), n)>> \o rest : in \in inputs, rest \in Collections(inputs, n - 1) }

CollectionsUpTo(inputs, n) == UNION { Collections(inputs, m) : m \in 0..n }

\* the panel holds a collection, nothing else is going on
InitPanelWith(collections, lists) ==
  /\ syncStore = Absent
  /\ localStore = Absent
  /\ reqs = {}
  /\ clipAddedMsgs = 0
  /\ loads = <<>>
  /\ clips \in collections
  /\ searchTerm = ""
  /\ sortOrder = "new"
  /\ cards = clips
  /\ saved = 0
  /\ seqBase = <<>>
  /\ seqRun = <<>>
  /\ trail = NoTrail
  /\ summarizers \in lists
  /\ sessions = <<>>
  /\ summarizing = FALSE
  /\ summaryContent = NoSummary
  /\ backend = NoBackend
  /\ agent = NewAgent
  /\ isClippingMode = FALSE
  /\ clipBus = NoClipMessages
  /\ relays = <<>>
  /\ injections = NoInjections(FALSE)
  /\ page = BlankPage
  /\ mainContent = NotCalled
  /\ metadata = NotCalled

InitSum == InitPanelWith(CollectionsUpTo(SumInputs, MaxSumClips), BackendLists)

NextSum ==
  \/ ClickSummarize
  \/ \E id \in 1..MaxSessions, avail \in BOOLEAN : ProbeSettles(id, avail)
  \/ \E id \in 1..MaxSessions, ok \in BOOLEAN : CreateSettles(id, ok)
  \/ \E id \in 1..MaxSessions, ok \in BOOLEAN : ItemSettles(id, ok)
  \/ \E id \in 1..MaxSessions, ok \in BOOLEAN : FinalSettles(id, ok)
  \/ ClickClose

SpecSum == InitSum /\ [][NextSum]_vars

\* a backend class about to be used, the panel idle
InitBackend ==
  /\ syncStore = Absent
  /\ localStore = Absent
  /\ reqs = {}
  /\ clipAddedMsgs = 0
  /\ loads = <<>>
  /\ clips = <<>>
  /\ searchTerm = ""
  /\ sortOrder = "new"
  /\ cards = <<>>
  /\ saved = 0
  /\ seqBase = <<>>
  /\ seqRun = <<>>
  /\ trail = NoTrail
  /\ summarizers = ShippedList
  /\ sessions = <<>>
  /\ summarizing = FALSE
  /\ summaryContent = NoSummary
  /\ backend \in { NewBackend(c) : c \in Classes }
  /\ agent = NewAgent
  /\ isClippingMode = FALSE
  /\ clipBus = NoClipMessages
  /\ relays = <<>>
  /\ injections = NoInjections(FALSE)
  /\ page = BlankPage
  /\ mainContent = NotCalled
  /\ metadata = NotCalled

NextBackend ==
  \/ BackendCreate
  \/ \E avail \in BOOLEAN : BackendAvailable(avail)
  \/ BackendAbort
  \/ \E ok \in BOOLEAN : BackendInitSettles(ok)
  \/ \E input \in SummarizeInputs : BackendSummarize(input)
  \/ \E ok \in BOOLEAN : BackendSummarizeSettles(ok)
  \/ BackendDestroy

SpecBackend == InitBackend /\ [][NextBackend]_vars

\* the candidates of a session, for every collection the panel may hold
DedupInputs ==
  { [url |-> "a", title |-> "news", bytes |-> 2000, content |-> "text"],
    [url |-> "b", title |-> "blog", bytes |-> 2000, content |-> "text"],
    [url |-> "c", title |-> "docs", bytes |-> 2000, content |-> "text"] }

InitDedup == InitPanelWith(CollectionsUpTo(DedupInputs, MaxCands), {ShippedList})

NextDedup == ClickSummarize

SpecDedup == InitDedup /\ [][NextDedup]_vars

\* the Coordinator serves saveClip requests; the panel is not open
NextSave ==
  \/ \E in \in ClipInputs : OnSaveClip(in)
  \/ \E r \in reqs, ok \in BOOLEAN : CoordGetSync(r, ok)
  \/ \E r \in reqs, ok \in BOOLEAN : CoordGetLocal(r, ok)
  \/ \E r \in reqs, ok \in BOOLEAN : CoordSet(r, ok)
  \/ \E r \in reqs, ok \in BOOLEAN : CoordFallback(r, ok)

SpecSave == Init /\ [][NextSave]_vars

\* the Coordinator serves saveClip requests and storage never fails
NextRace ==
  \/ \E in \in ClipInputs : OnSaveClip(in)
  \/ \E r \in reqs : CoordGetSync(r, TRUE)
  \/ \E r \in reqs : CoordGetLocal(r, TRUE)
  \/ \E r \in reqs : CoordSet(r, TRUE)

SpecRace == Init /\ [][NextRace]_vars

\* the Coordinator serves getMetadata requests
QueryResults == {"tab", "noTab", "rejected"}

NextMeta ==
  \/ OnGetMetadata
  \/ \E i \in 1..Len(relays), result \in QueryResults : RelayQuerySettles(i, result)
  \/ \E i \in 1..Len(relays), ok \in BOOLEAN : RelayDeliverySettles(i, ok)

SpecMeta == Init /\ [][NextMeta]_vars

\* the Coordinator serves injectContentScript requests for a tab that has
\* the content script or not
InitInject ==
  /\ syncStore = Absent
  /\ localStore = Absent
  /\ reqs = {}
  /\ clipAddedMsgs = 0
  /\ loads = <<>>
  /\ clips = <<>>
  /\ searchTerm = ""
  /\ sortOrder = "new"
  /\ cards = <<>>
  /\ saved = 0
  /\ seqBase = <<>>
  /\ seqRun = <<>>
  /\ trail = NoTrail
  /\ summarizers = ShippedList
  /\ sessions = <<>>
  /\ summarizing = FALSE
  /\ summaryContent = NoSummary
  /\ backend = NoBackend
  /\ agent = NewAgent
  /\ isClippingMode = FALSE
  /\ clipBus = NoClipMessages
  /\ relays = <<>>
  /\ injections \in { NoInjections(marker) : marker \in BOOLEAN }
  /\ page = BlankPage
  /\ mainContent = NotCalled
  /\ metadata = NotCalled

NextInject ==
  \/ OnInjectContentScript
  \/ \E i \in 1..Len(injections.handlers), result \in QueryResults :
       InjectQuerySettles(i, result)
  \/ \E i \in 1..Len(injections.handlers), ok \in BOOLEAN :
       InjectProbeSettles(i, ok)

SpecInject == InitInject /\ [][NextInject]_vars

\* the panel holds one clip; summaries are requested, closed and requested
\* again
InitAgain ==
  InitPanelWith(Collections(SumInputs, 1), BackendLists \ {ShippedList})

NextAgain ==
  \/ ClickSummarizeAgain
  \/ \E id \in 1..Len(sessions), avail \in BOOLEAN : ProbeSettles(id, avail)
  \/ \E id \in 1..Len(sessions), ok \in BOOLEAN : CreateSettles(id, ok)
  \/ \E id \in 1..Len(sessions), ok \in BOOLEAN : ItemSettles(id, ok)
  \/ \E id \in 1..Len(sessions), ok \in BOOLEAN : FinalSettles(id, ok)
  \/ ClickClose

SpecAgain == InitAgain /\ [][NextAgain]_vars

\* the content script is loaded into some page
InitPage ==
  /\ syncStore = Absent
  /\ localStore = Absent
  /\ reqs = {}
  /\ clipAddedMsgs = 0
  /\ loads = <<>>
  /\ clips = <<>>
  /\ searchTerm = ""
  /\ sortOrder = "new"
  /\ cards = <<>>
  /\ saved = 0
  /\ seqBase = <<>>
  /\ seqRun = <<>>
  /\ trail = NoTrail
  /\ summarizers = ShippedList
  /\ sessions = <<>>
  /\ summarizing = FALSE
  /\ summaryContent = NoSummary
  /\ backend = NoBackend
  /\ agent = NewAgent
  /\ isClippingMode = FALSE
  /\ clipBus = NoClipMessages
  /\ relays = <<>>
  /\ injections = NoInjections(FALSE)
  /\ page \in Pages
  /\ mainContent = NotCalled
  /\ metadata = NotCalled

NextPage ==
  \/ CallGetMainContent
  \/ NewPageMetaData

SpecPage == InitPage /\ [][NextPage]_vars

\* the content script is in the active tab and the panel is open
InitAgent == InitPanelWith({<<>>}, {ShippedList})

NextAgent ==
  \/ PanelToggle
  \/ PanelEscape
  \/ \E tab \in BOOLEAN : PanelQuerySettles(tab)
  \/ PanelOnExited
  \/ AgentOnToggle
  \/ \E target \in PageElements \cup OverlayNodes : AgentMouseOver(target)
  \/ \E stays \in BOOLEAN : AgentMouseOut(stays)
  \/ AgentClick
  \/ AgentTimer
  \/ AgentEscape

SpecAgent == InitAgent /\ [][NextAgent]_vars

\* the panel holds a collection as loaded from the store; the user searches,
\* sorts and asks for a summary
InitCands == InitPanelWith(CollectionsUpTo(DedupInputs, MaxCands), {ShippedList})

NextCands ==
  \/ \E term \in SearchTerms : SetSearch(term)
  \/ \E order \in SortOrders : SetSort(order)
  \/ ClickSummarize

SpecCands == InitCands /\ [][NextCands]_vars

\* ===================================================================== claims
\* the clips of c are listed from the most recently saved to the least
MostRecentFirst(c) == \A i, j \in 1..Len(c) : i < j => c[i].seq > c[j].seq

\* c without the clips whose timestamp is t
Without(c, t) == SelectSeq(c, LAMBDA x : x.ts # t)

\* a step in which a saveToStorage call of handler r returns
SaveReturns(r) == CoordSet(r, TRUE) \/ CoordFallback(r, TRUE)

\* C1 (as claimed): after two saveClip requests for C1 then C2 have been
\* processed one after the other, with no storage fault and nothing else
\* touching the store, getClips returns [C2, C1] followed by the collection
\* stored before, whatever its serialized size.
C1_InsertionOrder ==
  (reqs = {} /\ Len(seqRun) >= 2) =>
    getClips(syncStore, localStore) = seqRun \o seqBase

\* C2 (as claimed): a call of deleteClip with timestamp ts removes exactly
\* the clips whose timestamp is ts and keeps the others in order; the click
\* on a delete icon is the call the panel makes, and the ts it passes matches
\* no clip.
C2_DeleteExactlyTs ==
  [][\A i \in 1..Len(cards), ok \in BOOLEAN :
       ClickDelete(i, ok) => clips' = Without(clips, UNDEFINED)]_vars

\* C3 (as claimed): when saveToStorage(X) returns, an immediate getClips()
\* returns X, whatever the two storage tiers held before (stated for the
\* calls that met no storage fault and no other handler).
C3_RoundTrip ==
  [][\A r \in reqs :
       (r.clean /\ SaveReturns(r)) => getClips(syncStore', localStore') = r.clips]_vars

\* C4 (as claimed): once a saveClip for clip C has finished and the panel has
\* handled its clipAdded by reloading, with nothing in between, the panel's
\* collection is the one getClips returns, and C is its first element.
C4_PanelSeesSave ==
  trail.phase = "loaded" =>
    /\ clips = getClips(syncStore, localStore)
    /\ clips # <<>>
    /\ clips[1] = trail.clip

\* C5 (as claimed): every write to the persisted collection is a write of a
\* Coordinator handler.
C5_SingleWriter ==
  [][(syncStore' # syncStore \/ localStore' # localStore) =>
       \E r \in reqs : \E ok \in BOOLEAN : CoordSet(r, ok) \/ CoordFallback(r, ok)]_vars

\* C6 (as claimed): in every reachable state the persisted collection, as
\* getClips reads it, lists the clips from the most recently saved to the
\* least recently saved.
C6_MostRecentFirst == MostRecentFirst(getClips(syncStore, localStore))

\* the index of the first clip of c with URL u
FirstIdx(c, u) ==
  CHOOSE i \in 1..Len(c) : c[i].url = u /\ \A j \in 1..(i - 1) : c[j].url # u

\* out holds, for each URL of c, the first clip of c with that URL and no
\* other clip, in the order these clips have in c
FirstOccurrences(c, out) ==
  /\ { out[k].url : k \in 1..Len(out) } = { c[i].url : i \in 1..Len(c) }
  /\ \A k \in 1..Len(out) : out[k] = c[FirstIdx(c, out[k].url)]
  /\ \A k, l \in 1..Len(out) :
       k < l => FirstIdx(c, out[k].url) < FirstIdx(c, out[l].url)

\* C7: the candidates of a session are the first occurrence of each
\* metadata.url among clips.slice(0, 5), in their original order; the result
\* is no longer than the input, and 'No clips to summarize' (an empty result)
\* is reported only for an empty input.
C7_DedupFirstOccurrences ==
  /\ \A id \in 1..Len(sessions) :
       /\ FirstOccurrences(slice(clips, MAX_CANDIDATES), sessions[id].cands)
       /\ Len(sessions[id].cands) <= Len(slice(clips, MAX_CANDIDATES))
       /\ sessions[id].cands # <<>>
  /\ summaryContent.kind = "noClips" => clips = <<>>
  /\ (clips # <<>> /\ summarizing) => sessions # <<>>

\* C7 witness: a session whose candidates lost later occurrences of a URL, in
\* the middle and at the end of the five clips looked at
C7_Witness ==
  \E id \in 1..Len(sessions) :
    /\ Len(clips) > MAX_CANDIDATES
    /\ Len(sessions[id].cands) = 2
    /\ clips[1].url = clips[3].url
    /\ clips[2].url # clips[1].url
    /\ clips[5].url = clips[2].url

\* createSummarizer of session s has settled
CreateSettled(s) == s.inst # "none" \/ s.outcome = "notAvailable"

\* backend j of the list was skipped the way the selection algorithm skips:
\* probed false and not created, or probed true and its create() failed
Skipped(s, j) ==
  /\ j <= Len(s.probes)
  /\ j <= Len(s.creates)
  /\ IF s.probes[j] THEN s.creates[j] = "fail" ELSE s.creates[j] = "none"

\* C8 (as claimed, for the list as shipped): createSummarizer returns the
\* instance of the first backend that is available and whose create()
\* succeeds, having skipped the backends before it; it fails only after it
\* has gone through the whole list; create() is never called on a backend
\* whose probe returned false.
C8_BackendSelection ==
  summarizers = ShippedList =>
    \A id \in 1..Len(sessions) :
      LET s == sessions[id]
      IN  CreateSettled(s) =>
            IF s.inst # "none"
              THEN /\ s.inst = summarizers[s.k]
                   /\ s.probes[s.k] /\ s.creates[s.k] = "ok"
                   /\ \A j \in 1..(s.k - 1) : Skipped(s, j)
              ELSE \A j \in 1..Len(summarizers) : Skipped(s, j)

\* C9 (as claimed, for the list as shipped): when createSummarizer fails, it
\* fails with 'No summarizer available.' and with no other error.
C9_NoSummarizerError ==
  summarizers = ShippedList =>
    \A id \in 1..Len(sessions) :
      sessions[id].outcome = "notAvailable" => sessions[id].error = "NoSummarizer"

\* C10 (as claimed, for the sessions that found a backend available): a
\* session whose signal fired during backend creation or during its first
\* summarize call ends as a cancellation, a silent stop: it writes no summary
\* and no error message.
C10_EarlyCancelIsSilent ==
  \A id \in 1..Len(sessions) :
    LET s == sessions[id]
    IN  (s.pc = "done" /\ s.early /\ \E j \in 1..Len(s.probes) : s.probes[j]) =>
          /\ s.outcome = "aborted"
          /\ ~(summaryContent.by = id /\ summaryContent.kind \in {"summary", "notAvailable"})

\* C11: a session whose cancellation signal has fired never writes an overall
\* summary to the UI, whether the signal fired during backend creation, during
\* the per-item loop or while the final reduction call was in flight.
C11_NoSummaryAfterCancel ==
  \A id \in 1..Len(sessions) :
    LET s == sessions[id]
    IN  s.aborted =>
          /\ s.outcome # "summary"
          /\ ~(summaryContent.kind = "summary" /\ summaryContent.by = id)

\* C11 witness: the signal fired while the final call was in flight, the call
\* returned a summary all the same, and the panel still shows the loading view
C11_Witness ==
  \E id \in 1..Len(sessions) :
    LET s == sessions[id]
    IN  /\ s.pc = "done"
        /\ s.abortedAt = "final"
        /\ s.calls[Len(s.calls)].result = "ok"
        /\ s.summary # <<>>
        /\ summaryContent = Shows("loading", id, <<>>)

\* the final reduction call of session s has been made
FinalCalled(s) == s.calls # <<>> /\ s.calls[Len(s.calls)].item = 0

\* the summaries of the items 1..n whose call succeeded, in clip order
RECURSIVE Survivors(_, _)
Survivors(s, n) ==
  IF n = 0 THEN <<>>
  ELSE IF s.calls[n].result = "ok"
    THEN Append(Survivors(s, n - 1), s.cands[n].url)
    ELSE Survivors(s, n - 1)

\* the pieces of q with a blank line between neighbours
BlankLineJoined(q) ==
  IF q = <<>> THEN <<>>
  ELSE [k \in 1..(2 * Len(q) - 1) |-> IF k % 2 = 1 THEN q[(k + 1) \div 2] ELSE "\n\n"]

\* some but not all per-item calls of session s failed
PartialFailure(s) ==
  /\ \E i \in 1..Len(s.cands) : s.calls[i].result = "fail"
  /\ \E i \in 1..Len(s.cands) : s.calls[i].result = "ok"

\* C12: in every batch in which some but not all per-item calls fail, the
\* input of the final reduction call is exactly the successful per-item
\* summaries, in clip order, joined by a blank line, the failed items being
\* left out; the final call carries no length hint, and its result is the
\* overall summary the session writes.
C12_PartialFailure ==
  \A id \in 1..Len(sessions) :
    LET s == sessions[id]
        final == s.calls[Len(s.calls)]
        expected == BlankLineJoined(Survivors(s, Len(s.cands)))
    IN  (FinalCalled(s) /\ PartialFailure(s)) =>
          /\ final.input = expected
          /\ final.length = "none"
          /\ s.outcome = "summary" => s.summary = Reduction(expected)
          /\ (summaryContent.kind = "summary" /\ summaryContent.by = id) =>
                summaryContent.text = Reduction(expected)

\* C12 witness: three candidates, the call for the second failed, and the
\* overall summary was computed from the first and the third
C12_Witness ==
  \E id \in 1..Len(sessions) :
    LET s == sessions[id]
    IN  /\ s.outcome = "summary"
        /\ Len(s.cands) = 3
        /\ s.calls[1].result = "ok"
        /\ s.calls[2].result = "fail"
        /\ s.calls[3].result = "ok"
        /\ summaryContent =
             Shows("summary", id, Reduction(<<s.cands[1].url, "\n\n", s.cands[3].url>>))

\* the final call of session s was handed to the backend and failed there
FinalCallFailed(s) == s.outcome = "threw" /\ s.content # <<>>

\* C13 (as claimed): whatever subset of the per-item calls fails, every item
\* included, a session that was not cancelled and whose final call did not
\* fail in the backend ends with a reported outcome and does not leave the
\* panel in its loading state.
C13_BatchCompletes ==
  \A id \in 1..Len(sessions) :
    LET s == sessions[id]
    IN  (s.pc = "done" /\ s.inst # "none" /\ ~s.aborted /\ ~FinalCallFailed(s)) =>
          /\ s.outcome = "summary"
          /\ summaryContent # Shows("loading", id, <<>>)

\* the number of clips that remain after deduplication: the distinct URLs
\* among the clips looked at
Remaining(c) ==
  Cardinality({ c[i].url : i \in 1..Len(slice(c, MAX_CANDIDATES)) })

\* the length hint for n remaining clips
Hint(n) == IF n \in {1, 2} THEN "medium" ELSE "short"

\* C14: the length hint passed to every per-item summarize call of a session
\* is 'short' when more than 2 clips remain after deduplication and 'medium'
\* for 1 or 2 clips; all items of one session get the same hint.
C14_LengthHint ==
  \A id \in 1..Len(sessions) :
    LET s == sessions[id]
    IN  \A j \in 1..Len(s.calls) :
          s.calls[j].item # 0 =>
            /\ s.calls[j].length = Hint(Remaining(clips))
            /\ s.calls[j].length = s.calls[1].length

\* C14 witness: three clips remain and each of the three per-item calls was
\* made with 'short'
C14_Witness ==
  \E id \in 1..Len(sessions) :
    LET s == sessions[id]
    IN  /\ Remaining(clips) = 3
        /\ Len(s.calls) >= 3
        /\ \A j \in 1..3 : s.calls[j].item = j /\ s.calls[j].length = "short"

\* the summarize calls of session s that have not settled
InFlight(s) == { j \in 1..Len(s.calls) : s.calls[j].result = "pending" }

\* C16: within one session at most one summarize call is in flight at any
\* time; the call for item i+1 is made only after the call for item i has
\* settled, and the final reduction call only after every per-item call has
\* settled.
C16_SequentialCalls ==
  \A id \in 1..Len(sessions) :
    LET s == sessions[id]
    IN  /\ Cardinality(InFlight(s)) <= 1
        /\ \A j \in 1..Len(s.calls) :
             /\ j < Len(s.calls) => s.calls[j].result # "pending"
             /\ IF j <= Len(s.cands) THEN s.calls[j].item = j
                ELSE j = Len(s.cands) + 1 /\ s.calls[j].item = 0

\* C16 witness: the final call is in flight after three per-item calls, one
\* of which failed
C16_Witness ==
  \E id \in 1..Len(sessions) :
    LET s == sessions[id]
    IN  /\ Len(s.calls) = 4
        /\ InFlight(s) = {4}
        /\ s.calls[1].result = "ok"
        /\ s.calls[2].result = "fail"
        /\ s.calls[3].result = "ok"

\* C17 (as claimed): once the cancellation signal of a session has fired,
\* handleSummarize makes no further summarize call, neither for a remaining
\* clip nor for the final reduction.
C17_NoCallsAfterCancel ==
  \A id \in 1..Len(sessions) :
    \A j \in 1..Len(sessions[id].calls) : ~sessions[id].calls[j].afterAbort

\* C18 (as claimed): a session that obtained a backend instance has called
\* destroy() on it by the time it is over, both when it completed with a
\* summary and when it was cancelled (handleSummarize has returned, so no
\* later call can come).
C18_Teardown ==
  \A id \in 1..Len(sessions) :
    LET s == sessions[id]
    IN  (s.pc = "done" /\ s.inst # "none" /\ s.outcome \in {"summary", "aborted"}) =>
          s.destroyed

\* C15: for every backend variant, summarize called with an empty string or
\* with a value that is not a string fails, and does so before any call to
\* the underlying backend (session.prompt, the native summarize, or the
\* t5:summarize message) is made.
C15_InputValidation ==
  /\ \A x \in backend.sent : ValidInput(x)
  /\ ~ValidInput(backend.lastInput) =>
       /\ backend.lastResult = InputError(backend.lastInput)
       /\ ~backend.inflight

\* C15 witness: a T5Summarizer instance was given a non-string, the call
\* failed with a TypeError and nothing was sent to the backend
C15_Witness ==
  /\ backend.class = "T5Summarizer"
  /\ backend.lastInput = "undefined"
  /\ backend.lastResult = "TypeError"
  /\ backend.sent = {}

\* C19 (as claimed): every backend variant offers destroy(); calling it once
\* or several times never fails, and the platform object is released.
C19_DestroyContract ==
  backend.destroys > 0 =>
    /\ backend.destroyError = "none"
    /\ ~backend.live

\* C20 (as claimed): for every backend variant, if the signal fires while
\* create() is waiting for the platform's initialization, create() does not
\* return an instance: it fails with a cancellation failure.
C20_CreateHonorsCancel ==
  (backend.abortedAt = "init" /\ backend.pc \in {"ready", "failed"}) =>
    /\ backend.pc = "failed"
    /\ backend.error = "AbortError"

\* clip x is one of the n most recently saved clips of collection c
AmongMostRecent(x, c, n) ==
  Cardinality({ i \in 1..Len(c) : c[i].seq > x.seq }) < n

\* C21 (as claimed): the candidates of a summarization session are among the
\* 5 most recently saved clips of the collection, whatever search term and
\* sort order the panel has or has had before the request.
C21_CandidatesMostRecent ==
  \A id \in 1..Len(sessions) :
    \A k \in 1..Len(sessions[id].cands) :
      AmongMostRecent(sessions[id].cands[k], clips, MAX_CANDIDATES)

\* C22: the Capture Agent goes from Idle to Clipping only on a toggleClipMode
\* message with enabled=true, and from Clipping to Idle only on the delayed
\* exit after a clip, an Escape keypress, or a toggleClipMode message with
\* enabled=false; no other event changes the mode.
C22_ClipModeMachine ==
  [][/\ (~agent.isClippingMode /\ agent'.isClippingMode) =>
          agent'.cause = "toggleOn"
     /\ (agent.isClippingMode /\ ~agent'.isClippingMode) =>
          agent'.cause \in {"timer", "escape", "toggleOff"}]_vars

\* C22 witness: the agent entered Clipping on a toggle message, an element
\* was clipped, and the delayed exit took the agent back to Idle
C22_Witness ==
  /\ ~agent.isClippingMode
  /\ agent.lastEnter = "toggleOn"
  /\ agent.lastExit = "timer"
  /\ agent.clipsSent > 0

\* C23: every Clipping -> Idle transition of the Capture Agent, whatever its
\* cause, sends a clipModeExited message; when the UI Panel has handled one,
\* its toggle control is off.
C23_ExitNotifies ==
  [][/\ (agent.isClippingMode /\ ~agent'.isClippingMode) =>
          clipBus'.exited = clipBus.exited + 1
     /\ clipBus'.handled > clipBus.handled => ~isClippingMode']_vars

\* C23 witness: Escape in the page ended Clipping, and the panel, whose
\* toggle was on, has handled the notice
C23_Witness ==
  /\ agent.lastExit = "escape"
  /\ clipBus.handled > 0
  /\ clipBus.exited = 0
  /\ clipBus.toggles = 1
  /\ ~isClippingMode

\* C24: whenever the Capture Agent is Idle it holds no hover target and no
\* element is highlighted; the hover target is never one of the agent's own
\* overlay nodes, and only the hover target is highlighted.
C24_HoverOnlyWhenClipping ==
  /\ ~agent.isClippingMode =>
       /\ agent.currentElement = NULL
       /\ agent.highlighted = {}
  /\ agent.currentElement \notin OverlayNodes
  /\ agent.highlighted \subseteq {agent.currentElement}

\* C24 witness: an element was hovered and highlighted in Clipping state and
\* the agent is Idle again, after a mouseover that Idle ignored
C24_Witness ==
  /\ ~agent.isClippingMode
  /\ agent.lastExit = "escape"
  /\ agent.cause = "mouseover"
  /\ agent.clipsSent > 0

\* the write of handler r that has just succeeded put r's collection, the
\* new clip first, into the tier it was aimed at
Wrote(r) ==
  /\ r.pc \in {"set", "fallback"}
  /\ r \notin reqs'
  /\ Head(r.clips) = r.data
  /\ IF r.pc = "set" /\ saveTier(r.clips) = "sync"
       THEN syncStore' = Stored(r.clips)
       ELSE localStore' = Stored(r.clips)

\* C25: for each saveClip request the Coordinator reads the collection,
\* prepends the new clip and writes it back, and broadcasts clipAdded only
\* after the write has completed: exactly one clipAdded per successful write
\* and none when the write fails.
C25_SaveThenNotify ==
  [][/\ clipAddedMsgs' # clipAddedMsgs =>
          /\ clipAddedMsgs' = clipAddedMsgs + 1
          /\ \E r \in reqs : Wrote(r)
     /\ (\E r \in reqs : SaveReturns(r)) => clipAddedMsgs' = clipAddedMsgs + 1
     /\ (\E r \in reqs : CoordSet(r, FALSE) \/ CoordFallback(r, FALSE)) =>
          clipAddedMsgs' = clipAddedMsgs]_vars

\* C25 witness: the first write failed, the fallback write succeeded, and one
\* clipAdded is on the bus for the one clip in the store
C25_Witness ==
  /\ trail.phase = "saved"
  /\ saved = 1
  /\ clipAddedMsgs = 1
  /\ syncStore = Absent
  /\ localStore = Stored(<<trail.clip>>)
  /\ saveTier(localStore.val) = "sync"

\* the tiers by capacity: chrome.storage.sync holds about 100 KB, and
\* chrome.storage.local is the tier chosen above MAX_SYNC_BYTES
HigherTier == "local"

\* C28 (as claimed): when the write to the higher-capacity tier fails,
\* saveToStorage falls back to a write to the lower-capacity tier; if that
\* write fails too, the save fails and no clipAdded is broadcast.
C28_FallbackToLowerTier ==
  [][\A r \in reqs :
       /\ (r.pc = "fallback" /\ saveTier(r.clips) = HigherTier /\ CoordFallback(r, TRUE)) =>
            syncStore' = Stored(r.clips)
       /\ CoordFallback(r, FALSE) => clipAddedMsgs' = clipAddedMsgs]_vars

\* C28 (amended): when the first write fails, whichever tier the size aimed
\* it at, saveToStorage falls back to a write to chrome.storage.local, the
\* higher-capacity tier, and leaves chrome.storage.sync alone; if that write
\* fails too, the save fails as a whole: the handler ends, nothing is
\* written and no clipAdded is broadcast.
C28_FallbackToLocal ==
  [][\A r \in reqs :
       /\ CoordSet(r, FALSE) =>
            /\ \E q \in reqs' : q.pc = "fallback" /\ q.clips = r.clips /\ q.data = r.data
            /\ UNCHANGED <<syncStore, localStore, clipAddedMsgs>>
       /\ CoordFallback(r, TRUE) =>
            /\ localStore' = Stored(r.clips)
            /\ syncStore' = syncStore
            /\ clipAddedMsgs' = clipAddedMsgs + 1
       /\ CoordFallback(r, FALSE) =>
            /\ r \notin reqs'
            /\ UNCHANGED <<syncStore, localStore, clipAddedMsgs>>]_vars

\* C28 witness: one saveClip has been handled to its end, both of its writes
\* failed, nothing is stored and no clipAdded is on the bus
C28_Witness ==
  /\ saved = 1
  /\ reqs = {}
  /\ clipAddedMsgs = 0
  /\ syncStore = Absent
  /\ localStore = Absent

\* the collection c holds the clip saved with timestamp t
Holds(c, t) == \E i \in 1..Len(c) : c[i].ts = t

\* the tier a successful write of handler r has just written
Written(r) == IF saveTier(r.clips) = "sync" THEN syncStore' ELSE localStore'

\* C27: with no locking around the read-modify-write, two saveClip handlers
\* that have both read before either writes hold collections that lack each
\* other's clip, and the first one's write stores its own collection as it
\* is, so that the second one's write will drop the first one's clip: after
\* both writes the stored collection holds only one of the two new clips.
C27_LostUpdate ==
  [][\A r \in reqs, q \in reqs :
       (r # q /\ r.pc = "set" /\ q.pc = "set" /\ CoordSet(r, TRUE)) =>
         /\ Written(r) = Stored(r.clips)
         /\ ~Holds(r.clips, q.data.ts)
         /\ q \in reqs'
         /\ ~Holds(q.clips, r.data.ts)]_vars

\* C27 witness: two saveClip requests have been handled to their end, both
\* were announced with clipAdded, and the store holds a single clip
C27_Witness ==
  /\ saved = 2
  /\ reqs = {}
  /\ clipAddedMsgs = 2
  /\ localStore = Absent
  /\ syncStore.has
  /\ Len(syncStore.val) = 1

\* C29 (as claimed): when the final reduction call of a session that was not
\* cancelled fails, the panel leaves the loading state and shows an error
\* state.
C29_FailureShowsError ==
  \A id \in 1..Len(sessions) :
    LET s == sessions[id]
    IN  (s.pc = "done" /\ s.inst # "none" /\ ~s.aborted /\ FinalCallFailed(s)) =>
          /\ summaryContent # Shows("loading", id, <<>>)
          /\ summaryContent.kind = "error"
          /\ ~summarizing

\* the T5 backend has sent a t5:summarize message
SentSummarize == backend.sent # {} \/ backend.inflight

\* C30: the T5 backend sends t5:summarize only after its t5:init was answered
\* without an error; an init answered with an error, or not answered, yields
\* no instance: the backend is not ready and no summarize() call is made.
C30_InitBeforeUse ==
  backend.class = "T5Summarizer" =>
    /\ SentSummarize => backend.init = "ok"
    /\ backend.pc = "ready" <=> backend.init = "ok"
    /\ backend.init \in {"sent", "error"} =>
         /\ backend.calls = 0
         /\ ~backend.live
    /\ backend.init = "error" => backend.pc = "failed" /\ backend.error # "none"

\* C30 witness: the T5 backend, initialised, has sent a t5:summarize message
\* that was answered with a summary
C30_Witness ==
  /\ backend.class = "T5Summarizer"
  /\ backend.init = "ok"
  /\ backend.sent = {"text"}
  /\ backend.lastResult = "summary"

\* C26 (as claimed): every getMetadata request the Coordinator has handled
\* got exactly one response: the Capture Agent's response when the message
\* was delivered, a structured {success: false, error} when it was not; a
\* handler never ends without a response.
C26_RelayResponds ==
  \A i \in 1..Len(relays) :
    LET rl == relays[i]
    IN  /\ Len(rl.responses) <= 1
        /\ rl.pc = "done" =>
             /\ Len(rl.responses) = 1
             /\ rl.responses[1] =
                  IF rl.delivered THEN AgentResponse ELSE StructuredFailure

\* C31 (as claimed): a handled injectContentScript request whose tab has no
\* '.clipai-script-injected' marker has injected content.js and content.css,
\* one whose tab has the marker has injected nothing, and in both cases the
\* requester got {success: true}, once.
C31_InjectsWhenAbsent ==
  \A i \in 1..Len(injections.handlers) :
    LET h == injections.handlers[i]
    IN  (h.pc = "done" /\ h.tab = "tab") =>
          /\ h.responses = <<"success">>
          /\ h.files = IF injections.marker THEN {} ELSE ContentFiles

\* the score the claim names, for the blocks it can rank: textLength x
\* (1 - anchorCount / textLength); an empty block has no score above 0
ClaimedScore(b) == IF b.len = 0 THEN 0 ELSE b.len - b.links

\* the candidate blocks of the page that are not excluded
Candidates(pg) == { i \in 1..Len(pg.blocks) : ~pg.blocks[i].unwanted }

\* C32: getMainContent picks, among the candidate blocks that are not
\* excluded, the first one of those with the greatest score, and falls back
\* to the full body exactly when no candidate has a score above 0.
C32_MainContentChoice ==
  mainContent.called =>
    LET b == page.blocks
        cands == Candidates(page)
        best == mainContent.textOf
    IN  /\ best = 0 <=> \A i \in cands : ClaimedScore(b[i]) <= 0
        /\ best # 0 =>
             /\ best \in cands
             /\ \A i \in cands : ClaimedScore(b[i]) <= ClaimedScore(b[best])
             /\ \A i \in cands :
                  ClaimedScore(b[i]) = ClaimedScore(b[best]) => best <= i

\* C32 witness: of two wanted blocks with the same positive score the first
\* was picked
C32_Witness ==
  /\ mainContent.called
  /\ Len(page.blocks) = 2
  /\ Candidates(page) = {1, 2}
  /\ page.blocks[1] # page.blocks[2]
  /\ ClaimedScore(page.blocks[1]) = ClaimedScore(page.blocks[2])
  /\ ClaimedScore(page.blocks[1]) > 0
  /\ mainContent.textOf = 1

\* C38 (as claimed): every PageMetaData the Capture Agent makes, for a clip
\* or in answer to getMetadata, carries in content the extracted main-content
\* text of the page, with or without a keywords meta tag.
C38_ContentExtracted ==
  metadata.called => metadata.content = getMainContent(page)

\* nothing is under way between the panel and the agent: no toggleClipMode
\* message sent or about to be sent, no clipModeExited message, no timer
Quiet ==
  /\ clipBus.toggle = <<>>
  /\ clipBus.queries = 0
  /\ clipBus.exited = 0
  /\ agent.timers = 0

\* C33 (as claimed): whenever no toggleClipMode or clipModeExited message is
\* in flight and no delayed-exit timer is pending, the panel's isClippingMode
\* equals the agent's mode.
C33_ToggleInSync ==
  Quiet => isClippingMode = agent.isClippingMode

\* C34 (as claimed): the delayed exit of a clip ends a Clipping session only
\* if the clip was made in that session: no timer set before the session
\* began moves it to Idle.
C34_NoStaleExit ==
  [][(agent.isClippingMode /\ ~agent'.isClippingMode /\ agent'.cause = "timer") =>
       agent.stale = 0]_vars

\* C37: the click-capture listener of document and the Escape capture
\* listener of window are installed exactly when the agent is in Clipping
\* state, after any sequence of enable and disable messages, Escape
\* keypresses and clips.
C37_ListenersIffClipping ==
  /\ agent.clickListener <=> agent.isClippingMode
  /\ agent.escListener <=> agent.isClippingMode

\* C37 witness: the agent is Idle with no listener after an enable repeated
\* in Clipping, a clip and an exit
C37_Witness ==
  /\ ~agent.isClippingMode
  /\ ~agent.clickListener
  /\ ~agent.escListener
  /\ agent.reenabled
  /\ agent.clipsSent > 0
  /\ agent.lastExit \in {"escape", "toggleOff", "timer"}

\* C39 (as claimed): a Clipping session sends at most one saveClip message.
C39_OneClipPerSession ==
  agent.sessionClips <= 1

\* the clips a step takes out of the panel's collection
Deleted == { clips[j] : j \in 1..Len(clips) } \ { clips'[j] : j \in 1..Len(clips') }

\* C35 (as claimed): once a delete in the panel has removed a clip and has
\* written the collection, the clip is absent from the collection the
\* Coordinator reads with getClips.
C35_DeletedIsGone ==
  [][\A i \in 1..Len(cards) :
       ClickDelete(i, TRUE) =>
         \A x \in Deleted : ~Holds(getClips(syncStore', localStore'), x.ts)]_vars

\* a session that can still issue or await backend work
Running(s) == s.pc # "done"

\* C36 (as claimed): at most one summarization session is running at any
\* time, also after the summary was closed while a backend call was in
\* flight and a summary was requested again.
C36_OneSessionRuns ==
  Cardinality({ id \in 1..Len(sessions) : Running(sessions[id]) }) <= 1

====
